---- MODULE Spec2Model ----
(***************************************************************************)
(* Two-tier cache of common/dcache/redis.go: every node (RedisSession)     *)
(* owns a local MemSession, shares one redis store with the other nodes    *)
(* and keeps its local cache coherent through the pub/sub channel          *)
(* "dcach_sync".  Foreground calls (Get, Set, Delete, ScanDelete) are      *)
(* split at every store round trip, so that the other nodes, the publish   *)
(* goroutines and the subscribe goroutines interleave with them.           *)
(***************************************************************************)
EXTENDS Integers, Sequences, FiniteSets, Bags, TLC

(* ------------------------------ bounds --------------------------------- *)
\* events of one behaviour: foreground calls started, seconds elapsed, store
\* commands failed on the Get/Set/Delete paths, payloads that missed a peer
\* and payloads that came back to their sender, counted together
MaxEvents == 3
\* largest keyspace handed to ScanDelete
MaxScanKeys == 250

(* ------------------------- program constants --------------------------- *)
redis_item_timeout == 3600
redis_sync_set == 1
redis_sync_del == 2
\* COUNT argument of the SCAN command
ScanCount == 100
\* seconds the local copy expires ahead of the store
MemAdvance == 5

(* ----------------------------- universes ------------------------------- *)
Nodes == {1, 2}
\* keys of the coherence protocol; a key is also its slot in the keyspace
Keys == {1}
\* the (value, ttl) arguments Set is called with
SetInputs == {<<"a", 0>>, <<"a", -1>>, <<"b", 6>>}
\* a value json.Marshal rejects (a channel, a func)
BadVal == "ch"
\* key patterns of ScanDelete: 0 is "*", p > 0 is the literal key p
Patterns == {0, 1}

(* -------------------------- encoding/json ------------------------------ *)
\* json.Marshal of a caller's value
Marshal(v) ==
    CASE v = "a" -> [ok |-> TRUE, s |-> "\"a\""]
      [] v = "b" -> [ok |-> TRUE, s |-> "\"b\""]
      [] OTHER   -> [ok |-> FALSE, s |-> ""]

\* json.Unmarshal of a payload into the caller's variable
Unmarshal(s) ==
    CASE s = "\"a\"" -> [ok |-> TRUE, v |-> "a"]
      [] s = "\"b\"" -> [ok |-> TRUE, v |-> "b"]
      [] OTHER       -> [ok |-> FALSE, v |-> ""]

\* the publisher struct
Publisher(from, act, key, val, ttl) ==
    [From |-> from, Act |-> act, Key |-> key, Val |-> val, Ttl |-> ttl]

\* the zero value of the struct
ZeroPublisher == Publisher(0, 0, 0, "", 0)

\* the fields of the struct
PublisherFields == {"From", "Act", "Key", "Val", "Ttl"}

\* a payload on the wire
\*   obj : the text is a JSON object (FALSE: a syntax error somewhere in it)
\*   has : the members of the object, by field name
\*   ill : the members whose JSON type does not fit the field
Wire(obj, has, ill) == [obj |-> obj, has |-> has, ill |-> ill]

\* json.Marshal of a publisher: every field is written, none is omitted
EncodeNotice(p) == Wire(TRUE, p, {})

\* DecodeNotice reporting no error for a member of the wrong type
DecodeNoticeLenient(w, prev) ==
    IF ~w.obj
    THEN [ok |-> FALSE, p |-> prev]
    ELSE [ok |-> TRUE,
          p |-> [f \in PublisherFields |->
                    IF f \in DOMAIN w.has /\ f \notin w.ill THEN w.has[f] ELSE prev[f]]]

\* json.Unmarshal of a wire payload into the listener's pub, which holds prev:
\* a syntax error is found before anything is stored; a member of the wrong
\* type is skipped, the other members are stored and the error is returned
\* at the end; a field without a member keeps what it held
DecodeNotice(w, prev) ==
    IF ~w.obj
    THEN [ok |-> FALSE, p |-> prev]
    ELSE [ok |-> w.ill = {},
          p |-> [f \in PublisherFields |->
                    IF f \in DOMAIN w.has /\ f \notin w.ill THEN w.has[f] ELSE prev[f]]]

(* ----------------------------- MemSession ------------------------------ *)
\* a local cache is a function from its live keys to [val, ttl]
MemGet(m, k) == k \in DOMAIN m

MemSet(m, k, s, ttl) ==
    [x \in DOMAIN m \cup {k} |-> IF x = k THEN [val |-> s, ttl |-> ttl] ELSE m[x]]

MemDelete(m, k) == [x \in DOMAIN m \ {k} |-> m[x]]

\* one second passes: entries with a positive ttl count down and vanish at 0,
\* entries written with ttl <= 0 do not expire
MemTick(m) ==
    [x \in {y \in DOMAIN m : m[y].ttl /= 1} |->
        IF m[x].ttl > 1 THEN [m[x] EXCEPT !.ttl = @ - 1] ELSE m[x]]

(* ------------------------------ the store ------------------------------ *)
\* the store is a function from its live keys to [val, ttl]; ttl = -1: no expiry
StoreSet(st, k, s, ttl) ==
    [x \in DOMAIN st \cup {k} |-> IF x = k THEN [val |-> s, ttl |-> ttl] ELSE st[x]]

StoreDel(st, k) == [x \in DOMAIN st \ {k} |-> st[x]]

StoreTick(st) ==
    [x \in {y \in DOMAIN st : st[y].ttl /= 1} |->
        IF st[x].ttl > 1 THEN [st[x] EXCEPT !.ttl = @ - 1] ELSE st[x]]

\* TTL command as go-redis reports it: -2ns (no key) and -1ns (no expiry)
\* truncate to 0 seconds in int(dur.Val().Seconds())
getTtl(st, k) ==
    IF k \in DOMAIN st /\ st[k].ttl > 0 THEN st[k].ttl ELSE 0

\* glob match of a key against a ScanDelete pattern
Match(p, k) == p = 0 \/ p = k

(* ------------------------- node identity ------------------------------- *)
\* rs.name: the random 16-character identity, distinct for distinct nodes
Name(n) == n

\* an identity no node has
NoName == CHOOSE x \in 0..Cardinality(Nodes) : \A n \in Nodes : Name(n) /= x

(* ------------------------------- state --------------------------------- *)
VARIABLES
    store,      \* the redis keyspace: live key -> [val, ttl]
    nslots,     \* size of the keyspace table that SCAN walks
    mem,        \* mem[n]: node n's MemSession, live key -> [val, ttl]
    pc,         \* pc[n]: where node n's foreground call stands
    loc,        \* loc[n]: locals of node n's foreground call
    pending,    \* bag of publishers handed to "go rs.publish" and not yet sent
    inbox,      \* inbox[n]: payloads on node n's subscription channel
    scan,       \* scan[n]: locals of node n's ScanDelete
    last,       \* last[n]: record of node n's last returned call
    heard,      \* heard[n]: what reached mem[n] since node n's foreground last
                \*   wrote it: a peer's notice the listener applied (the last
                \*   one), SecondPassed, or NoNotice
    lost,       \* some notice failed to reach some peer of its sender
    echoed,     \* some listener received a notice of its own node that, taken
                \*   as a peer's, would have changed its cache
    spent,      \* events so far: calls, seconds, failed commands, payloads
                \*   lost to a peer, payloads received by their sender
    runs,       \* ScanDelete calls started
    pub,        \* pub[n]: the publisher struct node n's listener decodes into
    garbled     \* garbled[n]: "none", no payload failed to decode in node n's
                \*   listener; "failed", one did and no peer's notice was applied
                \*   since; "applied", a peer's notice was applied after one did

vars == <<store, nslots, mem, pc, loc, pending, inbox, scan, last, heard,
          lost, echoed, spent, runs, pub, garbled>>

Empty == [x \in {} |-> 0]

NoNotice == ZeroPublisher

\* mark in heard[n]: a second passed and no notice was applied after it
SecondPassed == Publisher(0, 3, 0, "", 0)

NoLoc == [key |-> 0, v |-> "", s |-> "", ttl |-> 0, serr |-> FALSE,
          heard |-> NoNotice, after |-> ""]

\* record of a returned call
\*   op, key, val : the call and its arguments (val: the value given to Set)
\*   ret, out     : the boolean returned, the value Get decoded into data
\*   src          : "mem" or "store", the tier a Get took its payload from
\*   T            : the ttl getTtl reported to a Get fallback
\*   wrote, wttl  : a Get fallback called mem.Set, and the ttl it passed
\*   serr         : a store command of the call failed
\*   changed      : the returning step changed the node's cache
\*   cached       : the key is in the node's cache when the call returns
\*   pubs         : the publishers the call handed to "go rs.publish"
\*   heard        : heard[n] when the call read the cache
\*   after        : the value of the node's previous call when that was a Set
\*                  of the same key that returned true, "" otherwise
NoCall == [op |-> "none", key |-> 0, val |-> "", ret |-> FALSE, out |-> "",
           src |-> "", T |-> 0, wrote |-> FALSE, wttl |-> 0, serr |-> FALSE,
           changed |-> FALSE, cached |-> FALSE, pubs |-> {},
           heard |-> NoNotice, after |-> ""]

\* locals and record of a ScanDelete
\*   pattern, cursor, n, keys : the argument "key", cursor, n and the part of
\*                              the fetched page not yet deleted
\*   pages   : the lengths of the pages fetched so far
\*   deleted : the DEL commands that succeeded
\*   matched : the keys of the store that matched when the call started
\*   done, ret, err : the call returned (ret, err); err is "" for nil,
\*                    "scan" for a failed SCAN, "del" for a failed DEL
NoScan == [pattern |-> 0, cursor |-> 0, n |-> 0, keys |-> <<>>, pages |-> <<>>,
           deleted |-> 0, matched |-> 0, done |-> FALSE, err |-> "", ret |-> 0]


\* room for e more events
Room(e) == spent + e <= MaxEvents

Init ==
    /\ store = Empty
    /\ nslots = Cardinality(Keys)
    /\ mem = [n \in Nodes |-> Empty]
    /\ pc = [n \in Nodes |-> "idle"]
    /\ loc = [n \in Nodes |-> NoLoc]
    /\ pending = EmptyBag
    /\ inbox = [n \in Nodes |-> <<>>]
    /\ scan = [n \in Nodes |-> NoScan]
    /\ last = [n \in Nodes |-> NoCall]
    /\ heard = [n \in Nodes |-> NoNotice]
    /\ lost = FALSE
    /\ echoed = FALSE
    /\ spent = 0
    /\ runs = 0
    /\ pub = [n \in Nodes |-> ZeroPublisher]
    /\ garbled = [n \in Nodes |-> "none"]

\* node n's call returns: its record becomes last[n]
Return(n, rec) ==
    /\ pc' = [pc EXCEPT ![n] = "idle"]
    /\ loc' = [loc EXCEPT ![n] = NoLoc]
    /\ last' = [last EXCEPT ![n] = rec]

(* ------------------------- code of the calls --------------------------- *)
\* NormalizeTtl leaving the ttl as the caller gave it
NormalizeTtlRaw(ttl) == ttl

\* Set: "if ttl <= 0 { ttl = redis_item_timeout }"
NormalizeTtl(ttl) == IF ttl <= 0 THEN redis_item_timeout ELSE ttl

\* SetFinish with the mem.Set forgotten
SetFinishNoCache(err, m, k, s, ttl, from) ==
    IF err
    THEN [mem |-> m, pub |-> {}, ret |-> FALSE]
    ELSE [mem |-> m,
          pub |-> {Publisher(from, redis_sync_set, k, s, ttl)},
          ret |-> TRUE]

\* SetFinish with the mem.Set done before the error of the store is looked at
SetFinishCacheFirst(err, m, k, s, ttl, from) ==
    IF err
    THEN [mem |-> MemSet(m, k, s, ttl), pub |-> {}, ret |-> FALSE]
    ELSE [mem |-> MemSet(m, k, s, ttl),
          pub |-> {Publisher(from, redis_sync_set, k, s, ttl)},
          ret |-> TRUE]

\* Set after the store command: err is rsp.Err() != nil.  Gives the local
\* cache, the publishers handed to "go rs.publish" and the returned boolean.
SetFinish(err, m, k, s, ttl, from) ==
    IF err
    THEN [mem |-> m, pub |-> {}, ret |-> FALSE]
    ELSE [mem |-> MemSet(m, k, s, ttl),
          pub |-> {Publisher(from, redis_sync_set, k, s, ttl)},
          ret |-> TRUE]

\* DeleteFinish giving up when the store command failed
DeleteFinishStrict(err, m, k, from) ==
    IF err
    THEN [mem |-> m, pub |-> {}, ret |-> FALSE]
    ELSE [mem |-> MemDelete(m, k),
          pub |-> {Publisher(from, redis_sync_del, k, "", 0)},
          ret |-> TRUE]

\* Delete after the store command: err is rsp.Err() != nil (only logged)
DeleteFinish(err, m, k, from) ==
    [mem |-> MemDelete(m, k),
     pub |-> {Publisher(from, redis_sync_del, k, "", 0)},
     ret |-> TRUE]

\* GetLocal returning true on every hit
GetLocalUnchecked(m, k) ==
    IF MemGet(m, k)
    THEN [hit |-> TRUE, ret |-> TRUE, out |-> Unmarshal(m[k].val).v]
    ELSE [hit |-> FALSE, ret |-> FALSE, out |-> ""]

\* Get, local tier: mem.Get and the json.Unmarshal of a hit
GetLocal(m, k) ==
    IF MemGet(m, k)
    THEN [hit |-> TRUE, ret |-> Unmarshal(m[k].val).ok, out |-> Unmarshal(m[k].val).v]
    ELSE [hit |-> FALSE, ret |-> FALSE, out |-> ""]

\* Get: the ttl handed to mem.Set, "ttl-5"
LocalTtl(T) == T - MemAdvance

\* Get, store tier, after str.Val() = s and getTtl = (T, true): decode, then
\* "return rs.mem.Set(key, s, ttl-5)" (MemSession.Set reports true)
GetFill(m, k, s, T) ==
    IF Unmarshal(s).ok
    THEN [mem |-> MemSet(m, k, s, LocalTtl(T)), ret |-> TRUE,
          out |-> Unmarshal(s).v, wrote |-> TRUE, wttl |-> LocalTtl(T)]
    ELSE [mem |-> m, ret |-> FALSE, out |-> "", wrote |-> FALSE, wttl |-> 0]

\* Apply without the test of pub.From
ApplyUnfiltered(m, p, name) ==
    IF p.Act = redis_sync_set THEN MemSet(m, p.Key, p.Val, p.Ttl)
    ELSE IF p.Act = redis_sync_del THEN MemDelete(m, p.Key)
    ELSE m

\* Apply with the ttl of the notice shortened as Get shortens the store's
ApplyStaggered(m, p, name) ==
    IF p.From /= name
    THEN IF p.Act = redis_sync_set THEN MemSet(m, p.Key, p.Val, p.Ttl - MemAdvance)
         ELSE IF p.Act = redis_sync_del THEN MemDelete(m, p.Key)
         ELSE m
    ELSE m

\* subscribe: what the listener named `name` does to its cache with a decoded pub
Apply(m, p, name) ==
    IF p.From /= name
    THEN IF p.Act = redis_sync_set THEN MemSet(m, p.Key, p.Val, p.Ttl)
         ELSE IF p.Act = redis_sync_del THEN MemDelete(m, p.Key)
         ELSE m
    ELSE m

\* heard[n] after a foreground step: wrote tells whether it wrote the cache
HeardAfter(n, wrote) == IF wrote THEN NoNotice ELSE heard[n]

\* the value a call on key k of node n comes right after (see NoCall.after)
After(n, k) ==
    IF last[n].op = "Set" /\ last[n].ret /\ last[n].key = k THEN last[n].val ELSE ""

(* ------------------------------- Get ----------------------------------- *)
GetCall(n, k) ==
    /\ pc[n] = "idle" /\ Room(1)
    /\ spent' = spent + 1
    /\ LET g == GetLocal(mem[n], k) IN
        IF g.hit
        THEN /\ Return(n, [NoCall EXCEPT !.op = "Get", !.key = k, !.ret = g.ret,
                              !.out = g.out, !.src = "mem", !.cached = TRUE,
                              !.heard = heard[n],
                              !.after = After(n, k)])
        ELSE /\ pc' = [pc EXCEPT ![n] = "get_store"]
             /\ loc' = [loc EXCEPT ![n] = [NoLoc EXCEPT !.key = k,
                              !.heard = heard[n],
                              !.after = After(n, k)]]
             /\ UNCHANGED last
    /\ UNCHANGED <<store, nslots, mem, pending, inbox, scan, heard, lost, echoed, runs, pub, garbled>>

GetRecord(n) ==
    [NoCall EXCEPT !.op = "Get", !.key = loc[n].key, !.src = "store",
                   !.cached = MemGet(mem[n], loc[n].key),
                   !.heard = loc[n].heard,
                   !.after = loc[n].after]

\* "str = rs.client.Get(ctx, key)": a missing key is the error redis.Nil
GetStore(n) ==
    /\ pc[n] = "get_store"
    /\ IF loc[n].key \in DOMAIN store
       THEN /\ pc' = [pc EXCEPT ![n] = "get_ttl"]
            /\ loc' = [loc EXCEPT ![n].s = store[loc[n].key].val]
            /\ UNCHANGED last
       ELSE Return(n, GetRecord(n))
    /\ UNCHANGED <<store, nslots, mem, pending, inbox, scan, heard, lost, echoed,
                   spent, runs, pub, garbled>>

\* the GET command fails
GetStoreErr(n) ==
    /\ pc[n] = "get_store" /\ Room(1)
    /\ spent' = spent + 1
    /\ Return(n, [GetRecord(n) EXCEPT !.serr = TRUE])
    /\ UNCHANGED <<store, nslots, mem, pending, inbox, scan, heard, lost, echoed, runs, pub, garbled>>

GetTtlWith(n, T, failed) ==
    LET f == GetFill(mem[n], loc[n].key, loc[n].s, T) IN
    /\ mem' = [mem EXCEPT ![n] = f.mem]
    /\ heard' = [heard EXCEPT ![n] = HeardAfter(n, f.wrote)]
    /\ Return(n, [GetRecord(n) EXCEPT !.ret = f.ret, !.out = f.out, !.T = T,
                     !.wrote = f.wrote, !.wttl = f.wttl, !.serr = failed,
                     !.changed = (f.mem /= mem[n]),
                     !.cached = MemGet(f.mem, loc[n].key)])

\* "rs.getTtl(key)", the decode and the mem.Set
GetTtl(n) ==
    /\ pc[n] = "get_ttl"
    /\ GetTtlWith(n, getTtl(store, loc[n].key), FALSE)
    /\ UNCHANGED <<store, nslots, pending, inbox, scan, lost, echoed, spent, runs, pub, garbled>>

\* the TTL command fails: dur.Val() is 0
GetTtlErr(n) ==
    /\ pc[n] = "get_ttl" /\ Room(1)
    /\ spent' = spent + 1
    /\ GetTtlWith(n, 0, TRUE)
    /\ UNCHANGED <<store, nslots, pending, inbox, scan, lost, echoed, runs, pub, garbled>>

(* ------------------------------- Set ----------------------------------- *)
SetRecord(k, v) == [NoCall EXCEPT !.op = "Set", !.key = k, !.val = v]

\* json.Marshal fails: "return false"
SetBadValue(n, k) ==
    /\ pc[n] = "idle" /\ Room(1)
    /\ ~Marshal(BadVal).ok
    /\ spent' = spent + 1
    /\ Return(n, [SetRecord(k, BadVal) EXCEPT !.cached = MemGet(mem[n], k)])
    /\ UNCHANGED <<store, nslots, mem, pending, inbox, scan, heard, lost, echoed, runs, pub, garbled>>

\* SetCall writing the caller's cache before the SET command is sent
SetCallCacheFirst(n, k, v, ttl) ==
    /\ pc[n] = "idle" /\ Room(1)
    /\ Marshal(v).ok
    /\ spent' = spent + 1
    /\ mem' = [mem EXCEPT ![n] = MemSet(@, k, Marshal(v).s, NormalizeTtl(ttl))]
    /\ store' = StoreSet(store, k, Marshal(v).s, NormalizeTtl(ttl))
    /\ pc' = [pc EXCEPT ![n] = "set_local"]
    /\ loc' = [loc EXCEPT ![n] = [NoLoc EXCEPT !.key = k, !.v = v,
                     !.s = Marshal(v).s, !.ttl = NormalizeTtl(ttl)]]
    /\ UNCHANGED <<nslots, pending, inbox, scan, last, heard, lost, echoed, runs,
                   pub, garbled>>

\* the SET command succeeds
SetCall(n, k, v, ttl) ==
    /\ pc[n] = "idle" /\ Room(1)
    /\ Marshal(v).ok
    /\ spent' = spent + 1
    /\ store' = StoreSet(store, k, Marshal(v).s, NormalizeTtl(ttl))
    /\ pc' = [pc EXCEPT ![n] = "set_local"]
    /\ loc' = [loc EXCEPT ![n] = [NoLoc EXCEPT !.key = k, !.v = v,
                     !.s = Marshal(v).s, !.ttl = NormalizeTtl(ttl)]]
    /\ UNCHANGED <<nslots, mem, pending, inbox, scan, last, heard, lost, echoed, runs, pub, garbled>>

\* the SET command fails
SetStoreErr(n, k, v, ttl) ==
    /\ pc[n] = "idle" /\ Room(2)
    /\ Marshal(v).ok
    /\ spent' = spent + 2
    /\ LET f == SetFinish(TRUE, mem[n], k, Marshal(v).s, NormalizeTtl(ttl), Name(n)) IN
        /\ mem' = [mem EXCEPT ![n] = f.mem]
        /\ heard' = [heard EXCEPT ![n] = HeardAfter(n, f.ret)]
        /\ pending' = pending (+) SetToBag(f.pub)
        /\ Return(n, [SetRecord(k, v) EXCEPT !.ret = f.ret, !.serr = TRUE,
                         !.changed = (f.mem /= mem[n]),
                         !.cached = MemGet(f.mem, k), !.pubs = f.pub])
    /\ UNCHANGED <<store, nslots, inbox, scan, lost, echoed, runs, pub, garbled>>

\* "rs.mem.Set(...)", "go rs.publish(...)", "return true"
SetLocal(n) ==
    /\ pc[n] = "set_local"
    /\ LET f == SetFinish(FALSE, mem[n], loc[n].key, loc[n].s, loc[n].ttl, Name(n)) IN
        /\ mem' = [mem EXCEPT ![n] = f.mem]
        /\ heard' = [heard EXCEPT ![n] = HeardAfter(n, f.ret)]
        /\ pending' = pending (+) SetToBag(f.pub)
        /\ Return(n, [SetRecord(loc[n].key, loc[n].v) EXCEPT !.ret = f.ret,
                         !.changed = (f.mem /= mem[n]),
                         !.cached = MemGet(f.mem, loc[n].key), !.pubs = f.pub])
    /\ UNCHANGED <<store, nslots, inbox, scan, lost, echoed, spent, runs, pub, garbled>>

(* ------------------------------ Delete --------------------------------- *)
\* the DEL command succeeds
DelCall(n, k) ==
    /\ pc[n] = "idle" /\ Room(1)
    /\ spent' = spent + 1
    /\ store' = StoreDel(store, k)
    /\ pc' = [pc EXCEPT ![n] = "del_local"]
    /\ loc' = [loc EXCEPT ![n] = [NoLoc EXCEPT !.key = k]]
    /\ UNCHANGED <<nslots, mem, pending, inbox, scan, last, heard, lost, echoed, runs, pub, garbled>>

\* the DEL command fails: logged
DelCallErr(n, k) ==
    /\ pc[n] = "idle" /\ Room(2)
    /\ spent' = spent + 2
    /\ pc' = [pc EXCEPT ![n] = "del_local"]
    /\ loc' = [loc EXCEPT ![n] = [NoLoc EXCEPT !.key = k, !.serr = TRUE]]
    /\ UNCHANGED <<store, nslots, mem, pending, inbox, scan, last, heard, lost, echoed, runs, pub, garbled>>

\* "rs.mem.Delete(key)", "go rs.publish(key, "", 0, redis_sync_del)", "return true"
DelLocal(n) ==
    /\ pc[n] = "del_local"
    /\ LET f == DeleteFinish(loc[n].serr, mem[n], loc[n].key, Name(n)) IN
        /\ mem' = [mem EXCEPT ![n] = f.mem]
        /\ heard' = [heard EXCEPT ![n] = HeardAfter(n, TRUE)]
        /\ pending' = pending (+) SetToBag(f.pub)
        /\ Return(n, [NoCall EXCEPT !.op = "Delete", !.key = loc[n].key,
                         !.ret = f.ret, !.serr = loc[n].serr,
                         !.changed = (f.mem /= mem[n]),
                         !.cached = MemGet(f.mem, loc[n].key), !.pubs = f.pub])
    /\ UNCHANGED <<store, nslots, inbox, scan, lost, echoed, spent, runs, pub, garbled>>

(* ------------------------- publish / subscribe ------------------------- *)
\* the node that published p
Sender(p) == {n \in Nodes : Name(n) = p.From}

\* the sets of nodes the payload of publisher p may reach: the channel delivers
\* at most once to every subscription, the sender's own included
Receivers(p) == SUBSET Nodes

\* events of a delivery to the nodes in to: one when a peer is missed, one
\* when the sender's own subscription receives the payload
DeliveryEvents(p, to) ==
    (IF (Nodes \ Sender(p)) \subseteq to THEN 0 ELSE 1)
        + (IF Sender(p) \cap to /= {} THEN 1 ELSE 0)

\* one "go rs.publish" goroutine runs: the payload reaches the nodes in to.
\* A node whose subscription is not yet established or whose channel dropped
\* the message is not in to, and a failed PUBLISH is the payload reaching no
\* node.
Publish(p, to) ==
    /\ BagIn(p, pending)
    /\ pending' = pending (-) SetToBag({p})
    /\ inbox' = [n \in Nodes |->
                    IF n \in to THEN Append(inbox[n], EncodeNotice(p)) ELSE inbox[n]]
    /\ lost' = (lost \/ ~((Nodes \ Sender(p)) \subseteq to))
    /\ Room(DeliveryEvents(p, to))
    /\ spent' = spent + DeliveryEvents(p, to)
    /\ UNCHANGED <<store, nslots, mem, pc, loc, scan, last, heard, echoed, runs, pub, garbled>>

\* Listen publishing every notice it applies again, under its own identity
ListenEcho(n) ==
    /\ inbox[n] /= <<>>
    /\ LET d == DecodeNotice(Head(inbox[n]), pub[n])
           m2 == IF d.ok THEN Apply(mem[n], d.p, Name(n)) ELSE mem[n]
           foreign == d.ok /\ d.p.From /= Name(n)
       IN /\ inbox' = [inbox EXCEPT ![n] = Tail(@)]
          /\ pub' = [pub EXCEPT ![n] = d.p]
          /\ garbled' = [garbled EXCEPT ![n] =
                            IF ~d.ok THEN "failed"
                            ELSE IF foreign /\ @ /= "none" THEN "applied" ELSE @]
          /\ mem' = [mem EXCEPT ![n] = m2]
          /\ heard' = [heard EXCEPT ![n] = IF foreign THEN d.p ELSE @]
          /\ echoed' = (echoed \/ (d.ok /\ d.p.From = Name(n)
                                    /\ Apply(mem[n], d.p, NoName) /= mem[n]))
          /\ pending' = IF foreign
                        THEN pending (+) SetToBag({[d.p EXCEPT !.From = Name(n)]})
                        ELSE pending
    /\ UNCHANGED <<store, nslots, pc, loc, scan, last, lost, spent, runs>>

\* one iteration of "for msg := range chn": pub is declared outside the loop,
\* so a decode stores into what the iteration before left there
Listen(n) ==
    /\ inbox[n] /= <<>>
    /\ LET d == DecodeNotice(Head(inbox[n]), pub[n])
           m2 == IF d.ok THEN Apply(mem[n], d.p, Name(n)) ELSE mem[n]
           foreign == d.ok /\ d.p.From /= Name(n)
       IN /\ inbox' = [inbox EXCEPT ![n] = Tail(@)]
          /\ pub' = [pub EXCEPT ![n] = d.p]
          /\ garbled' = [garbled EXCEPT ![n] =
                            IF ~d.ok THEN "failed"
                            ELSE IF foreign /\ @ /= "none" THEN "applied" ELSE @]
          /\ mem' = [mem EXCEPT ![n] = m2]
          /\ heard' = [heard EXCEPT ![n] = IF foreign THEN d.p ELSE @]
          /\ echoed' = (echoed \/ (d.ok /\ d.p.From = Name(n)
                                    /\ Apply(mem[n], d.p, NoName) /= mem[n]))
    /\ UNCHANGED <<store, nslots, pc, loc, pending, scan, last, lost, spent, runs>>

(* ------------------------------- time ---------------------------------- *)
\* one second passes in the store and in every local cache
Tick ==
    /\ Room(1)
    /\ spent' = spent + 1
    /\ store' = StoreTick(store)
    /\ mem' = [n \in Nodes |-> MemTick(mem[n])]
    /\ heard' = [n \in Nodes |-> SecondPassed]
    /\ UNCHANGED <<nslots, pc, loc, pending, inbox, scan, last, lost, echoed, runs, pub, garbled>>

Next ==
    \/ \E n \in Nodes, k \in Keys : GetCall(n, k)
    \/ \E n \in Nodes : GetStore(n)
    \/ \E n \in Nodes : GetStoreErr(n)
    \/ \E n \in Nodes : GetTtl(n)
    \/ \E n \in Nodes : GetTtlErr(n)
    \/ \E n \in Nodes, k \in Keys : SetBadValue(n, k)
    \/ \E n \in Nodes, k \in Keys, a \in SetInputs : SetCall(n, k, a[1], a[2])
    \/ \E n \in Nodes, k \in Keys, a \in SetInputs : SetStoreErr(n, k, a[1], a[2])
    \/ \E n \in Nodes : SetLocal(n)
    \/ \E n \in Nodes, k \in Keys : DelCall(n, k)
    \/ \E n \in Nodes, k \in Keys : DelCallErr(n, k)
    \/ \E n \in Nodes : DelLocal(n)
    \/ \E p \in BagToSet(pending) : \E to \in Receivers(p) : Publish(p, to)
    \/ \E n \in Nodes : Listen(n)
    \/ Tick

Spec == Init /\ [][Next]_vars

(* ---------------------------- ScanDelete ------------------------------- *)
Min(a, b) == IF a < b THEN a ELSE b

\* SCAN cursor MATCH p COUNT count: the store walks the next count slots of a
\* keyspace of ns slots, returns their live keys that match, and the cursor
\* of the slot to go on from, 0 when the walk is complete
StoreScan(st, ns, cursor, p, count) ==
    LET hi == Min(cursor + count, ns)
        slots == [i \in 1..(hi - cursor) |-> cursor + i]
    IN [keys |-> SelectSeq(slots, LAMBDA k : k \in DOMAIN st /\ Match(p, k)),
        next |-> IF cursor + count >= ns THEN 0 ELSE cursor + count]

\* "n += len(keys)"
ScanCounted(n, keys) == n + Len(keys)

\* ScanExhausted leaving the loop after the first page
ScanExhaustedEarly(cursor) == TRUE

\* "if cursor == 0 { break }"
ScanExhausted(cursor) == cursor = 0

\* "return 0, err" after a failed SCAN
ScanErrCount(n) == 0

\* "return n, err" after a failed DEL
DelErrCount(n) == n

\* node n's ScanDelete returns (ret, err)
ScanReturn(n, sc, ret, err) ==
    /\ scan' = [scan EXCEPT ![n] = [sc EXCEPT !.done = TRUE, !.ret = ret, !.err = err]]
    /\ pc' = [pc EXCEPT ![n] = "idle"]

\* after a page is dealt with: leave the loop or fetch the next page
ScanLoop(n, sc) ==
    IF ScanExhausted(sc.cursor)
    THEN ScanReturn(n, sc, sc.n, "")
    ELSE /\ scan' = [scan EXCEPT ![n] = sc]
         /\ pc' = [pc EXCEPT ![n] = "scan_page"]

ScanStart(n, p) ==
    /\ runs = 0 /\ pc[n] = "idle"
    /\ runs' = runs + 1
    /\ pc' = [pc EXCEPT ![n] = "scan_page"]
    /\ scan' = [scan EXCEPT ![n] = [NoScan EXCEPT !.pattern = p,
                   !.matched = Cardinality({k \in DOMAIN store : Match(p, k)})]]
    /\ UNCHANGED <<store, nslots, mem, loc, pending, inbox, last, heard, lost, echoed, spent, pub, garbled>>

\* the SCAN command succeeds
ScanPage(n) ==
    /\ pc[n] = "scan_page"
    /\ LET page == StoreScan(store, nslots, scan[n].cursor, scan[n].pattern, ScanCount)
           sc == [scan[n] EXCEPT !.cursor = page.next, !.keys = page.keys,
                                 !.n = ScanCounted(@, page.keys),
                                 !.pages = Append(@, Len(page.keys))]
       IN IF sc.keys = <<>>
          THEN ScanLoop(n, sc)
          ELSE /\ scan' = [scan EXCEPT ![n] = sc]
               /\ pc' = [pc EXCEPT ![n] = "scan_del"]
    /\ UNCHANGED <<store, nslots, mem, loc, pending, inbox, last, heard, lost, echoed,
                   spent, runs, pub, garbled>>

\* the SCAN command fails
ScanPageErr(n) ==
    /\ pc[n] = "scan_page"
    /\ ScanReturn(n, scan[n], ScanErrCount(scan[n].n), "scan")
    /\ UNCHANGED <<store, nslots, mem, loc, pending, inbox, last, heard, lost, echoed,
                   spent, runs, pub, garbled>>

\* the DEL command of the next key of the page succeeds
ScanDel(n) ==
    /\ pc[n] = "scan_del"
    /\ store' = StoreDel(store, Head(scan[n].keys))
    /\ LET sc == [scan[n] EXCEPT !.keys = Tail(@), !.deleted = @ + 1]
       IN IF sc.keys = <<>>
          THEN ScanLoop(n, sc)
          ELSE /\ scan' = [scan EXCEPT ![n] = sc]
               /\ pc' = pc
    /\ UNCHANGED <<nslots, mem, loc, pending, inbox, last, heard, lost, echoed, spent, runs, pub, garbled>>

\* the DEL command of the next key of the page fails
ScanDelErr(n) ==
    /\ pc[n] = "scan_del"
    /\ ScanReturn(n, scan[n], DelErrCount(scan[n].n), "del")
    /\ UNCHANGED <<store, nslots, mem, loc, pending, inbox, last, heard, lost, echoed,
                   spent, runs, pub, garbled>>

\* keyspaces handed to ScanDelete: every slot of 1..size holds a key
ScanSizes == {0, 1, ScanCount, ScanCount + 1, MaxScanKeys - 1, MaxScanKeys}

InitScan ==
    /\ \E size \in ScanSizes :
        /\ nslots = size
        /\ store = [k \in 1..size |-> [val |-> Marshal("a").s, ttl |-> redis_item_timeout]]
    /\ mem = [n \in Nodes |-> Empty]
    /\ pc = [n \in Nodes |-> "idle"]
    /\ loc = [n \in Nodes |-> NoLoc]
    /\ pending = EmptyBag
    /\ inbox = [n \in Nodes |-> <<>>]
    /\ scan = [n \in Nodes |-> NoScan]
    /\ last = [n \in Nodes |-> NoCall]
    /\ heard = [n \in Nodes |-> NoNotice]
    /\ lost = FALSE
    /\ echoed = FALSE
    /\ spent = 0
    /\ runs = 0
    /\ pub = [n \in Nodes |-> ZeroPublisher]
    /\ garbled = [n \in Nodes |-> "none"]

NextScan ==
    \/ \E n \in Nodes, p \in Patterns : ScanStart(n, p)
    \/ \E n \in Nodes : ScanPage(n)
    \/ \E n \in Nodes : ScanPageErr(n)
    \/ \E n \in Nodes : ScanDel(n)
    \/ \E n \in Nodes : ScanDelErr(n)

SpecScan == InitScan /\ [][NextScan]_vars

(* --------------------- payloads of other clients ----------------------- *)
\* text that is not JSON
Garbage == Wire(FALSE, Empty, {})

\* a Delete notice of key 1 whose Act member is a JSON string
IllTyped == Wire(TRUE, Publisher(NoName, redis_sync_del, 1, "", 0), {"Act"})

\* an Update notice of key 1 whose Val is not the JSON of any value
Corrupt == EncodeNotice(Publisher(NoName, redis_sync_set, 1, "{", 6))

InjectPayloads == {Garbage, IllTyped, Corrupt}

\* a client that is not a node publishes w on "dcach_sync" and the message
\* reaches node n's subscription channel
Inject(n, w) ==
    /\ Room(1)
    /\ spent' = spent + 1
    /\ inbox' = [inbox EXCEPT ![n] = Append(@, w)]
    /\ UNCHANGED <<store, nslots, mem, pc, loc, pending, scan, last, heard, lost,
                   echoed, runs, pub, garbled>>

\* Get and Set without store failures, the goroutines and the other clients
NextInject ==
    \/ \E n \in Nodes, k \in Keys : GetCall(n, k)
    \/ \E n \in Nodes : GetStore(n)
    \/ \E n \in Nodes : GetTtl(n)
    \/ \E n \in Nodes, k \in Keys, a \in SetInputs : SetCall(n, k, a[1], a[2])
    \/ \E n \in Nodes : SetLocal(n)
    \/ \E p \in BagToSet(pending) : \E to \in Receivers(p) : Publish(p, to)
    \/ \E n \in Nodes : Listen(n)
    \/ \E n \in Nodes, w \in InjectPayloads : Inject(n, w)

SpecInject == Init /\ [][NextInject]_vars

(* ---------------------- ScanDelete of a cached key --------------------- *)
\* node 1 has Set key 1 with the default ttl, the notice of that Set has been
\* applied by the listeners of some of the other nodes, and every channel
\* is drained
InitCached ==
    /\ \E told \in SUBSET (Nodes \ {1}) :
        mem = [n \in Nodes |->
                IF n \in told \cup {1}
                THEN [k \in {1} |-> [val |-> Marshal("a").s, ttl |-> redis_item_timeout]]
                ELSE Empty]
    /\ store = [k \in {1} |-> [val |-> Marshal("a").s, ttl |-> redis_item_timeout]]
    /\ nslots = Cardinality(Keys)
    /\ pc = [n \in Nodes |-> "idle"]
    /\ loc = [n \in Nodes |-> NoLoc]
    /\ pending = EmptyBag
    /\ inbox = [n \in Nodes |-> <<>>]
    /\ scan = [n \in Nodes |-> NoScan]
    /\ last = [n \in Nodes |-> NoCall]
    /\ heard = [n \in Nodes |-> NoNotice]
    /\ lost = FALSE
    /\ echoed = FALSE
    /\ spent = 0
    /\ runs = 0
    /\ pub = [n \in Nodes |-> ZeroPublisher]
    /\ garbled = [n \in Nodes |-> "none"]

\* ScanDelete, Get and the clock
NextCached ==
    \/ \E n \in Nodes, p \in Patterns : ScanStart(n, p)
    \/ \E n \in Nodes : ScanPage(n)
    \/ \E n \in Nodes : ScanPageErr(n)
    \/ \E n \in Nodes : ScanDel(n)
    \/ \E n \in Nodes : ScanDelErr(n)
    \/ \E n \in Nodes, k \in Keys : GetCall(n, k)
    \/ \E n \in Nodes : GetStore(n)
    \/ \E n \in Nodes : GetTtl(n)
    \/ Tick

SpecCached == InitCached /\ [][NextCached]_vars

(* ------------------------ a key written earlier ------------------------ *)
\* seconds the store still keeps a key that was written some time ago
RemainingTtls == {1, 5, 6}

\* node 1 wrote key 1 some time ago and T seconds of its ttl remain in the
\* store and in the writer's cache; the other nodes hold no entry for it
\* (they subscribed later, or their entry has expired)
InitRemaining ==
    /\ \E T \in RemainingTtls :
        /\ store = [k \in {1} |-> [val |-> Marshal("b").s, ttl |-> T]]
        /\ mem = [n \in Nodes |->
                    IF n = 1 THEN [k \in {1} |-> [val |-> Marshal("b").s, ttl |-> T]]
                    ELSE Empty]
    /\ nslots = Cardinality(Keys)
    /\ pc = [n \in Nodes |-> "idle"]
    /\ loc = [n \in Nodes |-> NoLoc]
    /\ pending = EmptyBag
    /\ inbox = [n \in Nodes |-> <<>>]
    /\ scan = [n \in Nodes |-> NoScan]
    /\ last = [n \in Nodes |-> NoCall]
    /\ heard = [n \in Nodes |-> NoNotice]
    /\ lost = FALSE
    /\ echoed = FALSE
    /\ spent = 0
    /\ runs = 0
    /\ pub = [n \in Nodes |-> ZeroPublisher]
    /\ garbled = [n \in Nodes |-> "none"]

\* Get and Set without store failures, the goroutines and the clock
NextRemaining ==
    \/ \E n \in Nodes, k \in Keys : GetCall(n, k)
    \/ \E n \in Nodes : GetStore(n)
    \/ \E n \in Nodes : GetTtl(n)
    \/ \E n \in Nodes, k \in Keys, a \in SetInputs : SetCall(n, k, a[1], a[2])
    \/ \E n \in Nodes : SetLocal(n)
    \/ \E p \in BagToSet(pending) : \E to \in Receivers(p) : Publish(p, to)
    \/ \E n \in Nodes : Listen(n)
    \/ Tick

SpecRemaining == InitRemaining /\ [][NextRemaining]_vars

(* ======================== properties: the protocol ===================== *)

\* C1 (as stated): when a Set of k returned true on a node and the node's next
\* call is Get(k), the Get returns true with the value of the Set, whatever
\* the node's listener and the other nodes did in between.
LocalWriteVisibility ==
    \A n \in Nodes :
        (last[n].op = "Get" /\ last[n].after /= "")
            => (last[n].ret /\ last[n].out = last[n].after)

\* C1 (amended): when a Set of k returned true on a node, the node's next call
\* is Get(k), and between the Set's return and the Get the node's listener
\* applied no notice of another node and no second passed, the Get returns
\* true with the value of the Set.
LocalWriteVisibilityUndisturbed ==
    \A n \in Nodes :
        (last[n].op = "Get" /\ last[n].after /= "" /\ last[n].heard = NoNotice)
            => (last[n].ret /\ last[n].out = last[n].after)

\* C1 witness: a Get right after a successful Set of the same key, with
\* nothing applied in between, while the store already holds a peer's value
LocalWriteVisibilityWitness ==
    \E n \in Nodes :
        /\ last[n].op = "Get" /\ last[n].after /= "" /\ last[n].heard = NoNotice
        /\ last[n].ret
        /\ last[n].key \in DOMAIN store
        /\ store[last[n].key].val /= Marshal(last[n].after).s

\* C2: once the listener of node b has applied the Update notice of another
\* node's Set, b's cache holds the notice's key with exactly the notice's
\* payload and ttl, and a Get of that key on b that finds the cache so
\* returns true with the value the notice serializes, taken from the cache
\* (no store command is issued).
Convergence ==
    \A b \in Nodes :
        /\ heard[b].Act = redis_sync_set
            => /\ heard[b].From /= Name(b)
               /\ MemGet(mem[b], heard[b].Key)
               /\ mem[b][heard[b].Key] = [val |-> heard[b].Val, ttl |-> heard[b].Ttl]
        /\ (last[b].op = "Get" /\ last[b].heard.Act = redis_sync_set
                /\ last[b].heard.Key = last[b].key)
            => /\ last[b].ret
               /\ last[b].src = "mem"
               /\ Marshal(last[b].out).ok
               /\ Marshal(last[b].out).s = last[b].heard.Val

\* C2 witness: node b answered a Get from the entry a peer's Update notice put
\* into its cache, having never written the key itself
ConvergenceWitness ==
    \E b \in Nodes :
        /\ last[b].op = "Get" /\ last[b].ret /\ last[b].src = "mem"
        /\ last[b].heard.Act = redis_sync_set
        /\ last[b].heard.From /= Name(b)
        /\ last[b].heard.Key = last[b].key

\* the payloads of node a still on their way to node b
InFlight(a, b) ==
    \/ \E p \in BagToSet(pending) : p.From = Name(a)
    \/ \E i \in 1..Len(inbox[b]) :
            DecodeNotice(inbox[b][i], ZeroPublisher).p.From = Name(a)

\* C3 (as stated): when node a's last call was a Delete(k) whose DEL command
\* succeeded, every notice a has published reached node b and was taken by
\* b's listener, and b made no call of its own, b's cache has no entry for k.
DeletePropagation ==
    \A a \in Nodes, b \in Nodes :
        (/\ a /= b
         /\ last[a].op = "Delete" /\ ~last[a].serr /\ pc[a] = "idle"
         /\ ~lost /\ ~InFlight(a, b)
         /\ last[b].op = "none" /\ pc[b] = "idle")
            => ~MemGet(mem[b], last[a].key)

\* C4: a step of node n's listener leaves n's cache unchanged when the notice
\* carries n's own identity; when it carries another identity, an Update
\* leaves the notice's payload and ttl under the notice's key and a Delete
\* leaves no entry under it.
SelfOriginFilter ==
    [][\A n \in Nodes :
        (inbox[n] /= <<>> /\ inbox'[n] = Tail(inbox[n])) =>
            LET p == DecodeNotice(Head(inbox[n]), pub[n]).p IN
            /\ p.From = Name(n) => mem'[n] = mem[n]
            /\ (p.From /= Name(n) /\ p.Act = redis_sync_set)
                => /\ MemGet(mem'[n], p.Key)
                   /\ mem'[n][p.Key] = [val |-> p.Val, ttl |-> p.Ttl]
            /\ (p.From /= Name(n) /\ p.Act = redis_sync_del)
                => ~MemGet(mem'[n], p.Key)]_vars

\* C4 witness: a listener has received its own node's notice while its cache
\* differed from what the notice would leave, and a listener has applied a
\* peer's notice
SelfOriginFilterWitness ==
    /\ echoed
    /\ \E n \in Nodes : heard[n].Act \in {redis_sync_set, redis_sync_del}

\* C5 (as stated): a Get that missed the cache, met no failing store command
\* and read ttl T from the store writes the cache entry with ttl T - 5 when
\* it returns true, and when T <= 0 it returns false and writes no cache
\* entry.
StaggeredTtlBound ==
    \A n \in Nodes :
        (last[n].op = "Get" /\ last[n].src = "store" /\ ~last[n].serr) =>
            IF last[n].T > 0
            THEN last[n].ret => (last[n].wrote /\ last[n].wttl = last[n].T - 5)
            ELSE ~last[n].ret /\ ~last[n].wrote

\* C6: a Set that returned false, because json.Marshal or the SET command
\* failed, left the node's cache as it was and handed nothing to publish.
FailedSetNoSideEffects ==
    \A n \in Nodes :
        (last[n].op = "Set" /\ ~last[n].ret)
            => (~last[n].changed /\ last[n].pubs = {})

\* C6 witness: one node's Set failed in the store, another's in json.Marshal
FailedSetWitness ==
    \E n \in Nodes, m \in Nodes :
        /\ last[n].op = "Set" /\ ~last[n].ret /\ last[n].serr
        /\ last[m].op = "Set" /\ ~last[m].ret /\ last[m].val = BadVal

\* C7: every returned Delete(k) returned true, left no entry for k in the
\* caller's cache and handed exactly one notice to publish, a Delete notice
\* of k with empty payload and the caller's identity, also when the DEL
\* command failed; and a Delete past its DEL command can always return.
DeleteBestEffort ==
    \A n \in Nodes :
        /\ last[n].op = "Delete"
            => /\ last[n].ret
               /\ ~last[n].cached
               /\ last[n].pubs =
                    {Publisher(Name(n), redis_sync_del, last[n].key, "", 0)}
        /\ pc[n] = "del_local" => ENABLED DelLocal(n)

\* C7 witness: a Delete whose DEL command failed has returned true
DeleteBestEffortWitness ==
    \E n \in Nodes : last[n].op = "Delete" /\ last[n].serr /\ last[n].ret

(* ======================== properties: ScanDelete ======================= *)

\* number of SCAN rounds that walk a keyspace of ns slots
Rounds(ns) == IF ns = 0 THEN 1 ELSE (ns + ScanCount - 1) \div ScanCount

\* C8: a ScanDelete that met no store error fetched pages of at most 100 keys,
\* deleted every key of every page, stopped with the first page whose next
\* cursor was 0, and returned nil with the number of keys that matched; 250
\* matching keys are fetched as pages of 100, 100 and 50.
BulkDeletePagination ==
    \A n \in Nodes :
        (scan[n].done /\ scan[n].err = "") =>
            /\ scan[n].ret = scan[n].matched
            /\ scan[n].deleted = scan[n].ret
            /\ \A k \in DOMAIN store : ~Match(scan[n].pattern, k)
            /\ \A i \in 1..Len(scan[n].pages) : scan[n].pages[i] <= ScanCount
            /\ scan[n].cursor = 0
            /\ Len(scan[n].pages) = Rounds(nslots)
            /\ scan[n].matched = 250 => scan[n].pages = <<100, 100, 50>>

\* C8 witness: 250 keys deleted in three rounds
BulkDeleteWitness ==
    \E n \in Nodes :
        /\ scan[n].done /\ scan[n].err = ""
        /\ scan[n].ret = 250
        /\ scan[n].pages = <<100, 100, 50>>

\* C9 (as stated): a ScanDelete that a failed DEL stopped returns the number
\* of keys it had deleted before the failure.
ScanDeleteAbortCount ==
    \A n \in Nodes :
        (scan[n].done /\ scan[n].err = "del") => scan[n].ret = scan[n].deleted

\* C10 (as stated): a ScanDelete that a failed SCAN stopped after keys of
\* earlier pages were deleted returns the number of keys already deleted.
PartialScanNotHidden ==
    \A n \in Nodes :
        (scan[n].done /\ scan[n].err = "scan" /\ scan[n].deleted > 0)
            => scan[n].ret = scan[n].deleted

(* ========================= properties: Set ============================= *)

\* C12: the ttl of a Set whose SET command succeeds is the caller's ttl when
\* that is above 0 and 3600 otherwise; it is above 0, it is the ttl the
\* store holds the key with once the SET command is done, and the same ttl
\* is what the rest of the call writes into the caller's cache and into the
\* one Update notice it hands to publish.
TtlNormalization ==
    [][\A n \in Nodes :
        /\ \A k \in Keys, a \in SetInputs :
                SetCall(n, k, a[1], a[2])
                    => /\ loc'[n].ttl = (IF a[2] > 0 THEN a[2] ELSE 3600)
                       /\ loc'[n].ttl > 0
                       /\ store'[k].ttl = loc'[n].ttl
        /\ SetLocal(n)
                => /\ mem'[n][loc[n].key].ttl = loc[n].ttl
                   /\ \A p \in last'[n].pubs : p.Ttl = loc[n].ttl
                   /\ \E p \in BagToSet(pending') :
                        p \in last'[n].pubs /\ p.Act = redis_sync_set]_vars

\* C12 witness: a Set called with a ttl of 0 or below has returned true, and
\* the store, the caller's cache and the notice still on its way all carry
\* 3600; another node's Set was called with a ttl above 0 and its notice
\* carries that ttl
TtlNormalizationWitness ==
    \E n \in Nodes, m \in Nodes :
        /\ last[n].op = "Set" /\ last[n].ret
        /\ last[n].pubs = {Publisher(Name(n), redis_sync_set, last[n].key,
                                      Marshal(last[n].val).s, redis_item_timeout)}
        /\ \A p \in last[n].pubs : BagIn(p, pending)
        /\ last[n].key \in DOMAIN store
        /\ store[last[n].key].ttl = redis_item_timeout
        /\ MemGet(mem[n], last[n].key)
        /\ mem[n][last[n].key].ttl = redis_item_timeout
        /\ last[m].op = "Set" /\ last[m].ret
        /\ \E p \in last[m].pubs : p.Ttl > 0 /\ p.Ttl /= redis_item_timeout

\* C14: the step of a Set that writes the store leaves the caller's cache,
\* the publishers handed over and every subscription channel as they were;
\* the later step that writes the caller's cache hands the Update notice to
\* a publish goroutine and returns true without any payload reaching a
\* channel; and a payload reaches a channel only when a publish goroutine
\* sends a publisher handed over before.
WriteOrdering ==
    [][\A n \in Nodes :
        /\ \A k \in Keys, a \in SetInputs :
                SetCall(n, k, a[1], a[2])
                    => /\ store'[k].val = Marshal(a[1]).s
                       /\ mem' = mem /\ pending' = pending /\ inbox' = inbox
                       /\ pc'[n] = "set_local"
        /\ SetLocal(n)
                => /\ mem'[n][loc[n].key] = [val |-> loc[n].s, ttl |-> loc[n].ttl]
                   /\ pending' = pending (+) SetToBag(
                        {Publisher(Name(n), redis_sync_set, loc[n].key, loc[n].s, loc[n].ttl)})
                   /\ inbox' = inbox
                   /\ store' = store
                   /\ pc'[n] = "idle" /\ last'[n].op = "Set" /\ last'[n].ret
        /\ Len(inbox'[n]) > Len(inbox[n])
                => \E p \in BagToSet(pending) :
                       /\ inbox'[n] = Append(inbox[n], EncodeNotice(p))
                       /\ pending' = pending (-) SetToBag({p})
                       /\ mem' = mem /\ store' = store /\ pc' = pc]_vars

\* C14 witness: a Set has returned true, the store and the caller's cache
\* hold what it wrote, and its notice is still with the publish goroutine:
\* no payload has reached any channel
WriteOrderingWitness ==
    \E n \in Nodes :
        /\ last[n].op = "Set" /\ last[n].ret /\ pc[n] = "idle"
        /\ last[n].pubs /= {} /\ \A p \in last[n].pubs : BagIn(p, pending)
        /\ \A m \in Nodes : inbox[m] = <<>> /\ pub[m] = ZeroPublisher
        /\ MemGet(mem[n], last[n].key)
        /\ mem[n][last[n].key].val = Marshal(last[n].val).s
        /\ last[n].key \in DOMAIN store
        /\ store[last[n].key].val = Marshal(last[n].val).s

\* C16: a step hands at most one publisher to a publish goroutine, and the
\* step that does is the return of a Delete or of a Set that returns true,
\* handing over the one notice of that call; a step of a listener, a step
\* of a Get and a Set that returns false hand over nothing; so the notices
\* waiting to be sent and the payloads on one node's channel are never more
\* than the calls started.
NoEchoAmplification ==
    /\ [][/\ BagCardinality(pending') <= BagCardinality(pending) + 1
          /\ BagCardinality(pending') > BagCardinality(pending)
                => \E n \in Nodes :
                       /\ pc[n] \in {"set_local", "del_local"} /\ pc'[n] = "idle"
                       /\ last'[n].op = (IF pc[n] = "set_local" THEN "Set" ELSE "Delete")
                       /\ last'[n].ret
                       /\ Cardinality(last'[n].pubs) = 1
                       /\ pending' = pending (+) SetToBag(last'[n].pubs)
          /\ \A n \in Nodes :
                /\ Listen(n) => pending' = pending
                /\ (\/ \E k \in Keys : GetCall(n, k)
                    \/ GetStore(n) \/ GetStoreErr(n)
                    \/ GetTtl(n) \/ GetTtlErr(n)) => pending' = pending
                /\ (pc'[n] = "idle" /\ last'[n] /= last[n] /\ last'[n].op = "Set"
                        /\ ~last'[n].ret) => pending' = pending]_vars
    /\ [](\A n \in Nodes : BagCardinality(pending) + Len(inbox[n]) <= spent)

\* C16 witness: node b's listener applied a peer's notice, b answered a Get
\* from its cache, and no publisher is waiting and no payload is on any
\* channel: nothing was published in response
NoEchoAmplificationWitness ==
    \E b \in Nodes :
        /\ heard[b].Act = redis_sync_set /\ heard[b].From /= Name(b)
        /\ last[b].op = "Get" /\ last[b].src = "mem" /\ last[b].ret
        /\ last[b].heard = heard[b]
        /\ pending = EmptyBag
        /\ \A m \in Nodes : inbox[m] = <<>>

\* C20 (as stated): every write into a cache carries a ttl above 0: the
\* write of a Set that returned true (the ttl its notice carries), the
\* write of a listener applying an Update notice, and the write of a Get
\* that fell back to the store and read a remaining ttl of 1 or more.
PositiveLocalTtl ==
    \A n \in Nodes :
        /\ (last[n].op = "Set" /\ last[n].ret)
                => \A p \in last[n].pubs : p.Ttl > 0
        /\ heard[n].Act = redis_sync_set => heard[n].Ttl > 0
        /\ (last[n].op = "Get" /\ last[n].wrote /\ last[n].T >= 1)
                => last[n].wttl > 0

(* ===================== properties: order of notices ==================== *)

\* C17 (as stated): when node a is the only node that made calls, its last
\* call was a write of k whose store command succeeded, and every notice a
\* published reached node b and was taken by b's listener, b's cache is in
\* the state of that last write: it holds the value of the Set, or no entry
\* after a Delete.
PerNodeNoticeOrder ==
    \A a \in Nodes, b \in Nodes :
        (/\ a /= b
         /\ pc[a] = "idle" /\ ~last[a].serr /\ last[a].ret
         /\ ~lost /\ ~InFlight(a, b)
         /\ last[b].op = "none" /\ pc[b] = "idle")
            => /\ last[a].op = "Set"
                    => /\ MemGet(mem[b], last[a].key)
                       /\ mem[b][last[a].key].val = Marshal(last[a].val).s
               /\ last[a].op = "Delete" => ~MemGet(mem[b], last[a].key)

\* no call is in flight, no publisher waits for its goroutine, every channel
\* is drained and no payload missed a node
Quiescent ==
    /\ \A n \in Nodes : pc[n] = "idle" /\ inbox[n] = <<>>
    /\ pending = EmptyBag
    /\ ~lost

\* C18 (as stated, in the case it names: every node made one call, so that
\* no node published two notices): in a quiescent state every cache entry
\* of every node is the value the store holds for its key.
QuiescentCoherence ==
    (/\ Quiescent
     /\ spent = Cardinality(Nodes)
     /\ \A n \in Nodes : last[n].op /= "none")
        => \A n \in Nodes, k \in Keys :
               MemGet(mem[n], k)
                   => /\ k \in DOMAIN store
                      /\ store[k].val = mem[n][k].val

(* ================= properties: ScanDelete of a cached key ============== *)

\* C19 (as stated): once a ScanDelete has returned nil on some node, a Get
\* of a key matching its pattern, made as its first call by a node whose
\* cache entry dates from before the ScanDelete, does not return true from
\* that entry.
BulkDeleteCoherence ==
    [][\A n \in Nodes, k \in Keys :
        (/\ \E a \in Nodes :
                scan[a].done /\ scan[a].err = "" /\ Match(scan[a].pattern, k)
         /\ last[n].op = "none"
         /\ GetCall(n, k)
         /\ pc'[n] = "idle" /\ last'[n].src = "mem")
            => ~last'[n].ret]_vars

(* ==================== properties: a key written earlier ================ *)

\* node b's cache holds for k a value the store does not hold, after a
\* notice missed a node
Stale(b, k) ==
    /\ lost
    /\ MemGet(mem[b], k)
    /\ k \notin DOMAIN store \/ store[k].val /= mem[b][k].val

\* C13 (as stated): a Get that finds no entry for k in the caller's cache
\* asks the store, returns false when the store has no k and otherwise
\* returns true with the value the store held; and an entry that went stale
\* because a notice was missed has a ttl above 0, so that it expires and
\* the node does not serve it forever.
SelfHealing ==
    /\ [][\A b \in Nodes :
            /\ GetStore(b) =>
                    IF loc[b].key \in DOMAIN store
                    THEN pc'[b] = "get_ttl" /\ loc'[b].s = store[loc[b].key].val
                    ELSE pc'[b] = "idle" /\ ~last'[b].ret
            /\ GetTtl(b) =>
                    /\ last'[b].ret
                    /\ Marshal(last'[b].out).s = loc[b].s]_vars
    /\ [](\A b \in Nodes, k \in Keys : Stale(b, k) => mem[b][k].ttl > 0)

(* =================== properties: payloads of other clients ============= *)

\* C11: a Get of k on a node whose cache holds an undecodable payload for k
\* (the entry a listener stored from an Update notice whose Val is not JSON)
\* returns false with nothing decoded, takes the entry from the cache
\* without any store command and leaves the cache as it was; the listener
\* of a node can always take its next payload.
CorruptLocalEntry ==
    \A n \in Nodes :
        /\ (/\ last[n].op = "Get"
            /\ last[n].heard.Act = redis_sync_set
            /\ last[n].heard.Key = last[n].key
            /\ ~Unmarshal(last[n].heard.Val).ok)
                => /\ ~last[n].ret
                   /\ last[n].out = ""
                   /\ last[n].src = "mem"
                   /\ ~last[n].changed
                   /\ last[n].cached
        /\ inbox[n] /= <<>> => ENABLED Listen(n)

\* C11 witness: a Get returned false from an undecodable cache entry while
\* the store held a decodable value for the key
CorruptLocalEntryWitness ==
    \E n \in Nodes :
        /\ last[n].op = "Get" /\ ~last[n].ret /\ last[n].src = "mem"
        /\ last[n].heard.Act = redis_sync_set
        /\ last[n].heard.Key = last[n].key
        /\ ~Unmarshal(last[n].heard.Val).ok
        /\ last[n].key \in DOMAIN store
        /\ Unmarshal(store[last[n].key].val).ok

\* a payload that json.Unmarshal rejects
Malformed(w) == ~w.obj \/ w.ill /= {}

\* a payload as publish writes it, from another identity than node n's
PeerNotice(w, n) ==
    /\ w.obj /\ w.ill = {}
    /\ DOMAIN w.has = PublisherFields
    /\ w.has.From /= Name(n)

\* C15: a step of node n's listener on a malformed payload leaves n's cache
\* unchanged; a step on a well-formed notice of another identity, taken
\* after a payload failed to decode, leaves the notice's payload and ttl
\* under its key (Update) or no entry under it (Delete); and a listener
\* that met a malformed payload can always take its next payload.
ListenerRobustness ==
    /\ [][\A n \in Nodes :
            (inbox[n] /= <<>> /\ inbox'[n] = Tail(inbox[n])) =>
                LET w == Head(inbox[n]) IN
                /\ Malformed(w) => mem'[n] = mem[n]
                /\ (garbled[n] /= "none" /\ PeerNotice(w, n)
                        /\ w.has.Act = redis_sync_set)
                    => /\ MemGet(mem'[n], w.has.Key)
                       /\ mem'[n][w.has.Key] = [val |-> w.has.Val, ttl |-> w.has.Ttl]
                /\ (garbled[n] /= "none" /\ PeerNotice(w, n)
                        /\ w.has.Act = redis_sync_del)
                    => ~MemGet(mem'[n], w.has.Key)]_vars
    /\ [](\A n \in Nodes :
            (garbled[n] /= "none" /\ inbox[n] /= <<>>) => ENABLED Listen(n))

\* C15 witness: after a payload failed to decode, node n's listener applied
\* the Update notice of a peer's Set, and n's cache holds what it carried
ListenerRobustnessWitness ==
    \E n \in Nodes, a \in Nodes :
        /\ garbled[n] = "applied"
        /\ heard[n] = pub[n]
        /\ heard[n].From = Name(a) /\ heard[n].Act = redis_sync_set
        /\ MemGet(mem[n], heard[n].Key)
        /\ mem[n][heard[n].Key] = [val |-> heard[n].Val, ttl |-> heard[n].Ttl]

====
